---- MODULE Spec2Model ----
(***************************************************************************)
(* Payoff / portfolio engines of payoff-diagram-web.                       *)
(*                                                                         *)
(* Numbers.  Every f64 of the source is an integer here (a price or a      *)
(* quantity in whole units) and +, -, * are exact; a quotient is kept as   *)
(* a reduced fraction (Rat).  NaN and the infinities are outside this      *)
(* model, and so is f64 rounding, except in the machine of the sampling    *)
(* loops, where the running price is rounded to MantissaBits significant   *)
(* bits as an f64 sum is rounded to 53.                                    *)
(*                                                                         *)
(* Option<T> is a sequence of length at most one: None is <<>>, Some(x)    *)
(* is <<x>>.  Vec<T> is a sequence.                                        *)
(***************************************************************************)
EXTENDS Integers, Sequences, FiniteSets, TLC

VARIABLES
    positions,          \* the position list handed to the engines
    price_start,        \* sampling parameters of the chart
    price_end,
    step_size,
    underlying_price,   \* the price of the last point query
    op,                 \* the last operation performed
    result              \* what the last engine call returned

vars == <<positions, price_start, price_end, step_size, underlying_price, op, result>>

-----------------------------------------------------------------------------
(* Bounds of the model *)

MaxPositions == 2
MaxPrice == 5
MaxStep == 2
MaxQty == 2
MaxPremium == 1
MaxContractSize == 2

Prices == 0..MaxPrice
Steps == 1..MaxStep
Quantities == (-MaxQty)..MaxQty
Premiums == (-1)..MaxPremium
ContractSizes == 0..MaxContractSize
OptionTypes == {"Call", "Put"}

-----------------------------------------------------------------------------
(* Arithmetic helpers *)

Max(a, b) == IF a >= b THEN a ELSE b

Abs(a) == IF a < 0 THEN -a ELSE a

RECURSIVE GCD(_, _)
GCD(a, b) == IF b = 0 THEN a ELSE GCD(b, a % b)

\* The exact quotient n / d (d # 0) as a reduced fraction with den > 0.
Rat(n, d) ==
    LET g == GCD(Abs(n), Abs(d))
        s == IF d < 0 THEN -1 ELSE 1
    IN  [num |-> (s * n) \div g, den |-> (s * d) \div g]

None == <<>>

Some(x) == <<x>>

\* Iterator::sum over a Vec<f64>
RECURSIVE SeqSum(_)
SeqSum(s) == IF s = <<>> THEN 0 ELSE Head(s) + SeqSum(Tail(s))

-----------------------------------------------------------------------------
(* models/position.rs *)

SpotPosition_new(quantity, entry_price) ==
    [variant |-> "Spot", quantity |-> quantity, entry_price |-> entry_price,
     active |-> TRUE]

OptionPosition_new(option_type, quantity, strike_price, premium) ==
    [variant |-> "Option", option_type |-> option_type, quantity |-> quantity,
     strike_price |-> strike_price, premium |-> premium,
     expiry_price |-> strike_price, active |-> TRUE]

FuturesPosition_new(quantity, entry_price, contract_size) ==
    [variant |-> "Futures", quantity |-> quantity, entry_price |-> entry_price,
     contract_size |-> contract_size, active |-> TRUE]

is_active(pos) == pos.active

\* A toggle that can only switch a position off.
toggle_active_clears(pos) == [pos EXCEPT !.active = FALSE]

toggle_active(pos) == [pos EXCEPT !.active = ~pos.active]

set_active(pos, active) == [pos EXCEPT !.active = active]

-----------------------------------------------------------------------------
(* engine/payoff_engine.rs *)

calculate_spot_payoff(spot, price) ==
    spot.quantity * (price - spot.entry_price)

\* An intrinsic value that is not floored at 0.
calculate_option_payoff_unclamped(option, price) ==
    LET intrinsic_value ==
            IF option.option_type = "Call"
            THEN price - option.strike_price
            ELSE option.strike_price - price
    IN  option.quantity * (intrinsic_value - option.premium)

\* A payoff scaled by the magnitude of the quantity, losing its direction.
calculate_option_payoff_unsigned(option, price) ==
    LET intrinsic_value ==
            IF option.option_type = "Call"
            THEN Max(price - option.strike_price, 0)
            ELSE Max(option.strike_price - price, 0)
    IN  Abs(option.quantity) * (intrinsic_value - option.premium)

calculate_option_payoff(option, price) ==
    LET intrinsic_value ==
            IF option.option_type = "Call"
            THEN Max(price - option.strike_price, 0)
            ELSE Max(option.strike_price - price, 0)
        long_payoff_per_contract == intrinsic_value - option.premium
        total_payoff == option.quantity * long_payoff_per_contract
    IN  total_payoff

\* A futures payoff that forgets the contract multiplier.
calculate_futures_payoff_unscaled(futures, price) ==
    futures.quantity * (price - futures.entry_price)

calculate_futures_payoff(futures, price) ==
    futures.quantity * futures.contract_size * (price - futures.entry_price)

calculate_single_payoff(position, price) ==
    CASE position.variant = "Spot" -> calculate_spot_payoff(position, price)
      [] position.variant = "Option" -> calculate_option_payoff(position, price)
      [] position.variant = "Futures" -> calculate_futures_payoff(position, price)

\* The same sum without the filter on is_active.
calculate_portfolio_payoff_unfiltered(ps, price) ==
    SeqSum([i \in 1..Len(ps) |-> calculate_single_payoff(ps[i], price)])

calculate_portfolio_payoff(ps, price) ==
    LET active_positions == SelectSeq(ps, is_active)
    IN  SeqSum([i \in 1..Len(active_positions) |->
                    calculate_single_payoff(active_positions[i], price)])

PayoffPoint(price, payoff) == [price |-> price, payoff |-> payoff]

\* A loop that stops before a sample equal to price_end.
RECURSIVE generate_payoff_curve_open(_, _, _, _, _)
generate_payoff_curve_open(ps, points, current_price, end, step) ==
    IF current_price < end
    THEN generate_payoff_curve_open(
             ps,
             Append(points,
                    PayoffPoint(current_price,
                                calculate_portfolio_payoff(ps, current_price))),
             current_price + step, end, step)
    ELSE points

\* The loop of generate_payoff_curve; step_size > 0.
RECURSIVE generate_payoff_curve_loop(_, _, _, _, _)
generate_payoff_curve_loop(ps, points, current_price, end, step) ==
    IF current_price <= end
    THEN generate_payoff_curve_loop(
             ps,
             Append(points,
                    PayoffPoint(current_price,
                                calculate_portfolio_payoff(ps, current_price))),
             current_price + step, end, step)
    ELSE points

\* A curve that starts one step late, as the loop of find_breakeven_points does.
generate_payoff_curve_late(ps, start, end, step) ==
    generate_payoff_curve_loop(ps, <<>>, start + step, end, step)

\* A curve whose loop tests current_price < price_end.
generate_payoff_curve_exclusive(ps, start, end, step) ==
    generate_payoff_curve_open(ps, <<>>, start, end, step)

generate_payoff_curve(ps, start, end, step) ==
    generate_payoff_curve_loop(ps, <<>>, start, end, step)

\* An interpolation that answers the middle of the interval.
interpolate_zero_crossing_midpoint(x1, y1, x2, y2) ==
    IF Abs(y2 - y1) = 0
    THEN Rat(x1, 1)
    ELSE Rat(x1 + x2, 2)

\* |y2 - y1| < f64::EPSILON: on whole numbers, exactly when y2 = y1.
interpolate_zero_crossing(x1, y1, x2, y2) ==
    IF Abs(y2 - y1) = 0
    THEN Rat(x1, 1)
    ELSE Rat(x1 * (y2 - y1) + (0 - y1) * (x2 - x1), y2 - y1)

\* A pass that records a crossing only on a strict change of sign.
RECURSIVE find_breakeven_points_strict(_, _, _, _, _, _)
find_breakeven_points_strict(ps, breakeven_points, prev_pnl, current_price, end, step) ==
    IF current_price <= end
    THEN LET current_pnl == calculate_portfolio_payoff(ps, current_price)
             crossed == \/ (prev_pnl < 0 /\ current_pnl > 0)
                        \/ (prev_pnl > 0 /\ current_pnl < 0)
             breakeven == interpolate_zero_crossing(
                              current_price - step, prev_pnl,
                              current_price, current_pnl)
         IN  find_breakeven_points_strict(
                 ps,
                 IF crossed THEN Append(breakeven_points, breakeven)
                            ELSE breakeven_points,
                 current_pnl, current_price + step, end, step)
    ELSE breakeven_points

\* The loop of find_breakeven_points; step_size > 0.
RECURSIVE find_breakeven_points_loop(_, _, _, _, _, _)
find_breakeven_points_loop(ps, breakeven_points, prev_pnl, current_price, end, step) ==
    IF current_price <= end
    THEN LET current_pnl == calculate_portfolio_payoff(ps, current_price)
             crossed == \/ (prev_pnl <= 0 /\ current_pnl >= 0)
                        \/ (prev_pnl >= 0 /\ current_pnl <= 0)
             breakeven == interpolate_zero_crossing(
                              current_price - step, prev_pnl,
                              current_price, current_pnl)
         IN  find_breakeven_points_loop(
                 ps,
                 IF crossed THEN Append(breakeven_points, breakeven)
                            ELSE breakeven_points,
                 current_pnl, current_price + step, end, step)
    ELSE breakeven_points

find_breakeven_points(ps, start, end, step) ==
    LET active_positions == SelectSeq(ps, is_active)
    IN  IF active_positions = <<>>
        THEN <<>>
        ELSE find_breakeven_points_loop(
                 ps, <<>>, calculate_portfolio_payoff(ps, start),
                 start + step, end, step)

\* Iterator::max_by / min_by with partial_cmp over the payoffs: None when empty.
RECURSIVE max_by(_)
max_by(s) ==
    IF s = <<>> THEN None
    ELSE LET rest == max_by(Tail(s))
         IN  IF rest = None THEN Some(Head(s))
             ELSE IF rest[1] >= Head(s) THEN rest ELSE Some(Head(s))

RECURSIVE min_by(_)
min_by(s) ==
    IF s = <<>> THEN None
    ELSE LET rest == min_by(Tail(s))
         IN  IF rest = None THEN Some(Head(s))
             ELSE IF rest[1] < Head(s) THEN rest ELSE Some(Head(s))

Payoffs(points) == [i \in 1..Len(points) |-> points[i].payoff]

calculate_max_profit(ps, start, end, step) ==
    LET active_positions == SelectSeq(ps, is_active)
    IN  IF active_positions = <<>>
        THEN None
        ELSE max_by(Payoffs(generate_payoff_curve(ps, start, end, step)))

\* A minimum taken with the comparison of the maximum.
calculate_max_loss_swapped(ps, start, end, step) ==
    LET active_positions == SelectSeq(ps, is_active)
    IN  IF active_positions = <<>>
        THEN None
        ELSE max_by(Payoffs(generate_payoff_curve(ps, start, end, step)))

calculate_max_loss(ps, start, end, step) ==
    LET active_positions == SelectSeq(ps, is_active)
    IN  IF active_positions = <<>>
        THEN None
        ELSE min_by(Payoffs(generate_payoff_curve(ps, start, end, step)))

-----------------------------------------------------------------------------
(* engine/portfolio_engine.rs *)

\* A probability that counts a payoff of exactly 0 as profit.
calculate_profit_probability_nonneg(payoff_curve) ==
    IF payoff_curve = <<>>
    THEN None
    ELSE LET profitable_points ==
                 Len(SelectSeq(payoff_curve, LAMBDA point : point.payoff >= 0))
         IN  Some(Rat(profitable_points, Len(payoff_curve)))

calculate_profit_probability(payoff_curve) ==
    IF payoff_curve = <<>>
    THEN None
    ELSE LET profitable_points ==
                 Len(SelectSeq(payoff_curve, LAMBDA point : point.payoff > 0))
         IN  Some(Rat(profitable_points, Len(payoff_curve)))

calculate_expected_value(payoff_curve) ==
    IF payoff_curve = <<>>
    THEN None
    ELSE LET total_payoff == SeqSum(Payoffs(payoff_curve))
         IN  Some(Rat(total_payoff, Len(payoff_curve)))

analyze_portfolio(ps, start, end, step) ==
    LET breakeven_points == find_breakeven_points(ps, start, end, step)
        max_profit == calculate_max_profit(ps, start, end, step)
        max_loss == calculate_max_loss(ps, start, end, step)
        payoff_curve == generate_payoff_curve(ps, start, end, step)
        profit_probability == calculate_profit_probability(payoff_curve)
        expected_value == calculate_expected_value(payoff_curve)
    IN  [total_positions |-> Len(ps),
         breakeven_points |-> breakeven_points,
         max_profit |-> max_profit,
         max_loss |-> max_loss,
         profit_probability |-> profit_probability,
         expected_value |-> expected_value]

\* A classifier that treats a spot of quantity 0 as long.
has_unlimited_profit_nonneg(ps) ==
    \E i \in 1..Len(ps) :
        CASE ps[i].variant = "Spot" -> ps[i].quantity >= 0
          [] ps[i].variant = "Option" ->
                ps[i].option_type = "Call" /\ ps[i].quantity > 0
          [] ps[i].variant = "Futures" -> ps[i].quantity > 0

has_unlimited_profit(ps) ==
    \E i \in 1..Len(ps) :
        CASE ps[i].variant = "Spot" -> ps[i].quantity > 0
          [] ps[i].variant = "Option" ->
                ps[i].option_type = "Call" /\ ps[i].quantity > 0
          [] ps[i].variant = "Futures" -> ps[i].quantity > 0

\* A classifier that flags only long futures.
has_unlimited_loss_long_futures(ps) ==
    \E i \in 1..Len(ps) :
        CASE ps[i].variant = "Spot" -> ps[i].quantity > 0
          [] ps[i].variant = "Option" ->
                \/ (ps[i].option_type = "Call" /\ ps[i].quantity < 0)
                \/ (ps[i].option_type = "Put" /\ ps[i].quantity > 0)
          [] ps[i].variant = "Futures" -> ps[i].quantity > 0

\* A classifier that looks at active positions only, as the payoff engine does.
has_unlimited_loss_active(ps) ==
    \E i \in 1..Len(ps) :
        /\ ps[i].active
        /\ CASE ps[i].variant = "Spot" -> ps[i].quantity > 0
             [] ps[i].variant = "Option" ->
                   \/ (ps[i].option_type = "Call" /\ ps[i].quantity < 0)
                   \/ (ps[i].option_type = "Put" /\ ps[i].quantity > 0)
             [] ps[i].variant = "Futures" -> TRUE

has_unlimited_loss(ps) ==
    \E i \in 1..Len(ps) :
        CASE ps[i].variant = "Spot" -> ps[i].quantity > 0
          [] ps[i].variant = "Option" ->
                \/ (ps[i].option_type = "Call" /\ ps[i].quantity < 0)
                \/ (ps[i].option_type = "Put" /\ ps[i].quantity > 0)
          [] ps[i].variant = "Futures" -> TRUE

\* A classification whose (false, true) arm is Medium.
get_risk_level_swapped(ps) ==
    LET profit == has_unlimited_profit(ps)
        loss == has_unlimited_loss(ps)
    IN  CASE profit /\ loss -> "High"
          [] profit /\ ~loss -> "Medium"
          [] ~profit /\ loss -> "Medium"
          [] ~profit /\ ~loss -> "Low"

\* A classifier that takes unlimited profit as a hedge of unlimited loss.
get_risk_level_hedged(ps) ==
    LET profit == has_unlimited_profit(ps)
        loss == has_unlimited_loss(ps)
    IN  CASE profit /\ loss -> "Medium"
          [] profit /\ ~loss -> "Medium"
          [] ~profit /\ loss -> "High"
          [] ~profit /\ ~loss -> "Low"

get_risk_level(ps) ==
    LET profit == has_unlimited_profit(ps)
        loss == has_unlimited_loss(ps)
    IN  CASE profit /\ loss -> "High"
          [] profit /\ ~loss -> "Medium"
          [] ~profit /\ loss -> "High"
          [] ~profit /\ ~loss -> "Low"

-----------------------------------------------------------------------------
(* engine/validation_engine.rs *)

\* Thresholds of the advisory warnings
LargeSpotQuantity == 10000
LargeOptionQuantity == 1000
LargeFuturesQuantity == 100
LargeContractSize == 100000
LargeNotional == 1000000
ManyPositions == 10
ManySteps == 10000

\* What `as usize` makes of an infinite quotient: the largest count.
usize_MAX == 2147483647

ValidationResult_new == [is_valid |-> TRUE, errors |-> <<>>, warnings |-> <<>>]

add_error(r, error) ==
    [r EXCEPT !.is_valid = FALSE, !.errors = Append(@, error)]

\* A warning that invalidates the result as an error does.
add_warning_invalidating(r, warning) ==
    [r EXCEPT !.is_valid = FALSE, !.warnings = Append(@, warning)]

add_warning(r, warning) ==
    [r EXCEPT !.warnings = Append(@, warning)]

is_ok(r) == r.is_valid /\ r.errors = <<>>

\* A validator that stops at its first failure.
validate_spot_position_first_only(spot, r) ==
    LET r1 == IF spot.quantity = 0
              THEN add_error(r, "Quantity cannot be zero")
              ELSE IF spot.entry_price <= 0
                   THEN add_error(r, "Entry price must be positive")
                   ELSE r
    IN  IF Abs(spot.quantity) > LargeSpotQuantity
        THEN add_warning(r1, "Large position size detected")
        ELSE r1

validate_spot_position(spot, r) ==
    LET r1 == IF spot.quantity = 0
              THEN add_error(r, "Quantity cannot be zero")
              ELSE r
        r2 == IF spot.entry_price <= 0
              THEN add_error(r1, "Entry price must be positive")
              ELSE r1
    IN  IF Abs(spot.quantity) > LargeSpotQuantity
        THEN add_warning(r2, "Large position size detected")
        ELSE r2

validate_option_position(option, r) ==
    LET r1 == IF option.quantity = 0
              THEN add_error(r, "Quantity cannot be zero")
              ELSE r
        r2 == IF option.strike_price <= 0
              THEN add_error(r1, "Strike price must be positive")
              ELSE r1
        r3 == IF option.premium < 0
              THEN add_error(r2, "Premium cannot be negative")
              ELSE r2
        r4 == IF option.premium = 0
              THEN add_warning(r3, "Zero premium option - verify this is correct")
              ELSE r3
        r5 == IF Abs(option.quantity) > LargeOptionQuantity
              THEN add_warning(r4, "Large option position detected")
              ELSE r4
    IN  \* premium > strike_price * 0.5
        IF 2 * option.premium > option.strike_price
        THEN add_warning(r5, "Premium seems unusually high relative to strike price")
        ELSE r5

validate_futures_position(futures, r) ==
    LET r1 == IF futures.quantity = 0
              THEN add_error(r, "Quantity cannot be zero")
              ELSE r
        r2 == IF futures.contract_size <= 0
              THEN add_error(r1, "Contract size must be positive")
              ELSE r1
        r3 == IF Abs(futures.quantity) > LargeFuturesQuantity
              THEN add_warning(r2, "Large futures position detected")
              ELSE r2
    IN  IF futures.contract_size > LargeContractSize
        THEN add_warning(r3, "Very large contract size detected")
        ELSE r3

validate_position(position) ==
    CASE position.variant = "Spot" ->
            validate_spot_position(position, ValidationResult_new)
      [] position.variant = "Option" ->
            validate_option_position(position, ValidationResult_new)
      [] position.variant = "Futures" ->
            validate_futures_position(position, ValidationResult_new)

\* |quantity| times the reference price of the variant
notional(pos) ==
    CASE pos.variant = "Spot" -> Abs(pos.quantity) * pos.entry_price
      [] pos.variant = "Option" -> Abs(pos.quantity) * pos.strike_price
      [] pos.variant = "Futures" ->
            Abs(pos.quantity) * pos.entry_price * pos.contract_size

validate_portfolio_risk(ps, r) ==
    LET total_notional == SeqSum([i \in 1..Len(ps) |-> notional(ps[i])])
        r1 == IF total_notional > LargeNotional
              THEN add_warning(r, "Portfolio has very large notional exposure")
              ELSE r
    IN  IF Len(ps) > ManyPositions
        THEN add_warning(r1,
                "Complex portfolio with many positions - consider simplification")
        ELSE r1

\* format!("Position {}: {}", i + 1, message): the 1-based index of the
\* position in front of the message.
Prefixed(index, message) == <<"Position", index, message>>

\* The inner loops: every message of one position's result, prefixed and
\* added to the portfolio's result, the errors through add_error.
RECURSIVE add_prefixed_errors(_, _, _)
add_prefixed_errors(r, index, errors) ==
    IF errors = <<>> THEN r
    ELSE add_prefixed_errors(add_error(r, Prefixed(index, Head(errors))),
                             index, Tail(errors))

RECURSIVE add_prefixed_warnings(_, _, _)
add_prefixed_warnings(r, index, warnings) ==
    IF warnings = <<>> THEN r
    ELSE add_prefixed_warnings(add_warning(r, Prefixed(index, Head(warnings))),
                               index, Tail(warnings))

\* A loop that keeps only the first error of each position.
RECURSIVE validate_portfolio_loop_first_error(_, _, _)
validate_portfolio_loop_first_error(ps, index, r) ==
    IF index > Len(ps) THEN r
    ELSE LET pos_result == validate_position(ps[index])
             first == IF pos_result.errors = <<>> THEN <<>>
                      ELSE <<Head(pos_result.errors)>>
             r1 == add_prefixed_errors(r, index, first)
             r2 == add_prefixed_warnings(r1, index, pos_result.warnings)
         IN  validate_portfolio_loop_first_error(ps, index + 1, r2)

\* for (i, position) in positions.iter().enumerate(), from position `index` on
RECURSIVE validate_portfolio_loop(_, _, _)
validate_portfolio_loop(ps, index, r) ==
    IF index > Len(ps) THEN r
    ELSE LET pos_result == validate_position(ps[index])
             r1 == add_prefixed_errors(r, index, pos_result.errors)
             r2 == add_prefixed_warnings(r1, index, pos_result.warnings)
         IN  validate_portfolio_loop(ps, index + 1, r2)

validate_portfolio(ps) ==
    IF ps = <<>>
    THEN add_warning(ValidationResult_new, "Portfolio is empty")
    ELSE validate_portfolio_risk(ps,
            validate_portfolio_loop(ps, 1, ValidationResult_new))

\* ((price_end - price_start) / step_size) as usize: the cast truncates,
\* takes a negative quotient and NaN (0 / 0) to 0 and +infinity to the
\* largest count.
total_steps(start, end, step) ==
    IF step = 0
    THEN IF end - start > 0 THEN usize_MAX ELSE 0
    ELSE IF (end - start >= 0) = (step > 0)
         THEN Abs(end - start) \div Abs(step)
         ELSE 0

\* A validator that rejects a step as large as the whole range.
validate_chart_parameters_strict_step(start, end, step) ==
    LET r0 == ValidationResult_new
        r1 == IF start <= 0
              THEN add_error(r0, "Start price must be positive") ELSE r0
        r2 == IF end <= 0
              THEN add_error(r1, "End price must be positive") ELSE r1
        r3 == IF start >= end
              THEN add_error(r2, "End price must be greater than start price")
              ELSE r2
        r4 == IF step <= 0
              THEN add_error(r3, "Step size must be positive") ELSE r3
        r5 == IF step >= end - start
              THEN add_error(r4, "Step size is too large for the price range")
              ELSE r4
    IN  IF total_steps(start, end, step) > ManySteps
        THEN add_warning(r5, <<"Large number of data points",
                               total_steps(start, end, step)>>)
        ELSE r5

validate_chart_parameters(start, end, step) ==
    LET r0 == ValidationResult_new
        r1 == IF start <= 0
              THEN add_error(r0, "Start price must be positive") ELSE r0
        r2 == IF end <= 0
              THEN add_error(r1, "End price must be positive") ELSE r1
        r3 == IF start >= end
              THEN add_error(r2, "End price must be greater than start price")
              ELSE r2
        r4 == IF step <= 0
              THEN add_error(r3, "Step size must be positive") ELSE r3
        r5 == IF step > end - start
              THEN add_error(r4, "Step size is too large for the price range")
              ELSE r4
    IN  IF total_steps(start, end, step) > ManySteps
        THEN add_warning(r5, <<"Large number of data points",
                               total_steps(start, end, step)>>)
        ELSE r5

-----------------------------------------------------------------------------
(* models/payoff.rs: the earlier calculator *)

PayoffCalculator_calculate_option_payoff(option, price) ==
    LET intrinsic_value ==
            IF option.option_type = "Call"
            THEN Max(price - option.strike_price, 0)
            ELSE Max(option.strike_price - price, 0)
        net_payoff ==
            IF option.quantity >= 0
            THEN intrinsic_value - option.premium
            ELSE option.premium - intrinsic_value
    IN  Abs(option.quantity) * net_payoff
            * (IF option.quantity >= 0 THEN 1 ELSE -1)

PayoffCalculator_calculate_single_payoff(position, price) ==
    CASE position.variant = "Spot" -> position.quantity * (price - position.entry_price)
      [] position.variant = "Option" ->
            PayoffCalculator_calculate_option_payoff(position, price)
      [] position.variant = "Futures" ->
            position.quantity * position.contract_size
                * (price - position.entry_price)

-----------------------------------------------------------------------------
(* The position list and the engine calls made on it *)

\* Positions a form can submit: both directions of every variant.
Catalogue ==
    { SpotPosition_new(2, 2), SpotPosition_new(-1, 3),
      OptionPosition_new("Call", 2, 2, 1), OptionPosition_new("Call", -1, 3, 1),
      OptionPosition_new("Put", 1, 3, 1), OptionPosition_new("Put", -2, 2, 0),
      FuturesPosition_new(1, 2, 2), FuturesPosition_new(-1, 1, 2),
      SpotPosition_new(0, 1) }

NoResult == <<>>

Init ==
    /\ positions = <<>>
    /\ price_start = 0
    /\ price_end = MaxPrice
    /\ step_size = 1
    /\ underlying_price = 0
    /\ op = "new"
    /\ result = NoResult

AddPosition(p) ==
    /\ Len(positions) < MaxPositions
    /\ positions' = Append(positions, p)
    /\ op' = "add_position"
    /\ result' = NoResult
    /\ UNCHANGED <<price_start, price_end, step_size, underlying_price>>

RemovePosition(index) ==
    /\ index \in 1..Len(positions)
    /\ positions' = SubSeq(positions, 1, index - 1)
                        \o SubSeq(positions, index + 1, Len(positions))
    /\ op' = "remove_position"
    /\ result' = NoResult
    /\ UNCHANGED <<price_start, price_end, step_size, underlying_price>>

ToggleActive(index) ==
    /\ index \in 1..Len(positions)
    /\ positions' = [positions EXCEPT ![index] = toggle_active(@)]
    /\ op' = "toggle_active"
    /\ result' = NoResult
    /\ UNCHANGED <<price_start, price_end, step_size, underlying_price>>

SetActive(index, active) ==
    /\ index \in 1..Len(positions)
    /\ positions' = [positions EXCEPT ![index] = set_active(@, active)]
    /\ op' = "set_active"
    /\ result' = NoResult
    /\ UNCHANGED <<price_start, price_end, step_size, underlying_price>>

CalculatePortfolioPayoff(price) ==
    /\ underlying_price' = price
    /\ result' = calculate_portfolio_payoff(positions, price)
    /\ op' = "calculate_portfolio_payoff"
    /\ UNCHANGED <<positions, price_start, price_end, step_size>>

HasUnlimitedProfit ==
    /\ result' = has_unlimited_profit(positions)
    /\ op' = "has_unlimited_profit"
    /\ UNCHANGED <<positions, price_start, price_end, step_size, underlying_price>>

HasUnlimitedLoss ==
    /\ result' = has_unlimited_loss(positions)
    /\ op' = "has_unlimited_loss"
    /\ UNCHANGED <<positions, price_start, price_end, step_size, underlying_price>>

GetRiskLevel ==
    /\ result' = get_risk_level(positions)
    /\ op' = "get_risk_level"
    /\ UNCHANGED <<positions, price_start, price_end, step_size, underlying_price>>

Next ==
    \/ \E p \in Catalogue : AddPosition(p)
    \/ \E i \in 1..MaxPositions : RemovePosition(i)
    \/ \E i \in 1..MaxPositions : ToggleActive(i)
    \/ \E i \in 1..MaxPositions, a \in BOOLEAN : SetActive(i, a)
    \/ \E price \in Prices : CalculatePortfolioPayoff(price)
    \/ HasUnlimitedProfit
    \/ HasUnlimitedLoss
    \/ GetRiskLevel

Spec == Init /\ [][Next]_vars

-----------------------------------------------------------------------------
(* The chart: a portfolio sampled over [price_start, price_end] *)

\* Portfolios on the price grid: the spot of scenario A and the long call of
\* scenario B scaled to the grid, and combinations whose payoff is zero on a
\* sample, zero on a run of samples, or changes sign between samples.
Scenarios ==
    { <<>>,
      <<SpotPosition_new(2, 2)>>,
      <<OptionPosition_new("Call", 1, 2, 1)>>,
      <<OptionPosition_new("Put", -2, 2, 0)>>,
      <<OptionPosition_new("Call", 2, 1, 1), OptionPosition_new("Put", 2, 3, 1)>>,
      <<SpotPosition_new(-1, 3), FuturesPosition_new(1, 2, 2)>>,
      <<OptionPosition_new("Call", 1, 1, 0), OptionPosition_new("Call", -1, 3, 0)>>,
      <<SpotPosition_new(1, 3), OptionPosition_new("Put", 1, 3, 1),
        OptionPosition_new("Call", -1, 3, 1)>>,
      <<SpotPosition_new(2, 2), OptionPosition_new("Call", 1, 3, 1)>>,
      <<SpotPosition_new(1, 1), FuturesPosition_new(1, 2, 1)>> }

InitChart ==
    /\ positions \in Scenarios
    /\ price_start \in Prices
    /\ price_end \in Prices
    /\ step_size \in Steps
    /\ underlying_price = 0
    /\ op = "new"
    /\ result = NoResult

GenerateCurve ==
    /\ result' = generate_payoff_curve(positions, price_start, price_end, step_size)
    /\ op' = "generate_payoff_curve"
    /\ UNCHANGED <<positions, price_start, price_end, step_size, underlying_price>>

FindBreakevenPoints ==
    /\ result' = find_breakeven_points(positions, price_start, price_end, step_size)
    /\ op' = "find_breakeven_points"
    /\ UNCHANGED <<positions, price_start, price_end, step_size, underlying_price>>

CalculateMaxProfit ==
    /\ result' = calculate_max_profit(positions, price_start, price_end, step_size)
    /\ op' = "calculate_max_profit"
    /\ UNCHANGED <<positions, price_start, price_end, step_size, underlying_price>>

CalculateMaxLoss ==
    /\ result' = calculate_max_loss(positions, price_start, price_end, step_size)
    /\ op' = "calculate_max_loss"
    /\ UNCHANGED <<positions, price_start, price_end, step_size, underlying_price>>

AnalyzePortfolio ==
    /\ result' = analyze_portfolio(positions, price_start, price_end, step_size)
    /\ op' = "analyze_portfolio"
    /\ UNCHANGED <<positions, price_start, price_end, step_size, underlying_price>>

NextChart ==
    \/ \E i \in DOMAIN positions : ToggleActive(i)
    \/ GenerateCurve
    \/ FindBreakevenPoints
    \/ CalculateMaxProfit
    \/ CalculateMaxLoss
    \/ AnalyzePortfolio

SpecChart == InitChart /\ [][NextChart]_vars

-----------------------------------------------------------------------------
(* One position priced at one underlying price *)

SinglePositions ==
    {SpotPosition_new(q, e) : q \in Quantities, e \in Prices}
    \cup {OptionPosition_new(t, q[1], q[2], m) :
            t \in OptionTypes, q \in Quantities \X Prices, m \in Premiums}
    \cup {FuturesPosition_new(q, e[1], e[2]) :
            q \in Quantities, e \in Prices \X ContractSizes}

InitSingle ==
    /\ \E p \in SinglePositions : positions = <<p>>
    /\ price_start = 0
    /\ price_end = MaxPrice
    /\ step_size = 1
    /\ underlying_price = 0
    /\ op = "new"
    /\ result = NoResult

CalculateSinglePayoff(price) ==
    /\ positions # <<>>
    /\ underlying_price' = price
    /\ result' = calculate_single_payoff(positions[1], price)
    /\ op' = "calculate_single_payoff"
    /\ UNCHANGED <<positions, price_start, price_end, step_size>>

PayoffCalculatorSinglePayoff(price) ==
    /\ positions # <<>>
    /\ underlying_price' = price
    /\ result' = PayoffCalculator_calculate_single_payoff(positions[1], price)
    /\ op' = "PayoffCalculator_calculate_single_payoff"
    /\ UNCHANGED <<positions, price_start, price_end, step_size>>

NextSingle ==
    \/ \E price \in Prices : CalculateSinglePayoff(price)
    \/ \E price \in Prices : PayoffCalculatorSinglePayoff(price)

SpecSingle == InitSingle /\ [][NextSingle]_vars

-----------------------------------------------------------------------------
(* Validation of a position, a portfolio and the chart parameters *)

MaxMessages == 2

\* Positions a form can hold before validation: zero, negative and oversized
\* fields included.
ValidationPositions ==
    {SpotPosition_new(q, e) :
        q \in {-1, 0, 1, LargeSpotQuantity + 1}, e \in {-1, 0, 1}}
    \cup {OptionPosition_new(t, q, k[1], k[2]) :
            t \in OptionTypes, q \in {-1, 0, 1, LargeOptionQuantity + 1},
            k \in {-1, 0, 1, 4} \X {-1, 0, 1, 3}}
    \cup {FuturesPosition_new(q, e, c) :
            q \in {-1, 0, 1, LargeFuturesQuantity + 1}, e \in {-1, 0, 1},
            c \in {-1, 0, 1, LargeContractSize + 1}}

\* Positions that are combined into portfolios: a valid spot, a spot with two
\* errors, an option with three, a futures with a non-positive entry price, a
\* zero-premium option and a futures of very large notional.
ValidationCatalogue ==
    { SpotPosition_new(1, 1), SpotPosition_new(0, -1),
      OptionPosition_new("Put", 0, 0, -1), FuturesPosition_new(1, 0, 1),
      OptionPosition_new("Call", -1, 4, 0),
      FuturesPosition_new(LargeFuturesQuantity + 1, 1, LargeContractSize + 1) }

ValidationPortfolios ==
    {<<>>}
    \cup {<<p>> : p \in ValidationPositions}
    \cup {<<p, q>> : p, q \in ValidationCatalogue}
    \cup {[i \in 1..(ManyPositions + 1) |-> SpotPosition_new(1, 1)]}

\* Chart ranges, the (100, 50, 1) of scenario D and a range of more than
\* ManySteps samples among them.
ChartPrices == {-1, 0, 1, 2, 50, 100, ManySteps + 3}

ChartSteps == {-1, 0, 1, 2}

ManualMessages == {"manual"}

InitValidation ==
    /\ \/ /\ positions \in ValidationPortfolios
          /\ price_start = 1 /\ price_end = 2 /\ step_size = 1
       \/ /\ positions = <<>>
          /\ price_start \in ChartPrices
          /\ price_end \in ChartPrices
          /\ step_size \in ChartSteps
    /\ underlying_price = 0
    /\ op = "new"
    /\ result = ValidationResult_new

NewResult ==
    /\ result' = ValidationResult_new
    /\ op' = "new"
    /\ UNCHANGED <<positions, price_start, price_end, step_size, underlying_price>>

AddError(error) ==
    /\ Len(result.errors) + Len(result.warnings) < MaxMessages
    /\ result' = add_error(result, error)
    /\ op' = "add_error"
    /\ UNCHANGED <<positions, price_start, price_end, step_size, underlying_price>>

AddWarning(warning) ==
    /\ Len(result.errors) + Len(result.warnings) < MaxMessages
    /\ result' = add_warning(result, warning)
    /\ op' = "add_warning"
    /\ UNCHANGED <<positions, price_start, price_end, step_size, underlying_price>>

ValidatePosition ==
    /\ positions # <<>>
    /\ result' = validate_position(positions[1])
    /\ op' = "validate_position"
    /\ UNCHANGED <<positions, price_start, price_end, step_size, underlying_price>>

ValidatePortfolio ==
    /\ result' = validate_portfolio(positions)
    /\ op' = "validate_portfolio"
    /\ UNCHANGED <<positions, price_start, price_end, step_size, underlying_price>>

ValidateChartParameters ==
    /\ result' = validate_chart_parameters(price_start, price_end, step_size)
    /\ op' = "validate_chart_parameters"
    /\ UNCHANGED <<positions, price_start, price_end, step_size, underlying_price>>

NextValidation ==
    \/ NewResult
    \/ \E error \in ManualMessages : AddError(error)
    \/ \E warning \in ManualMessages : AddWarning(warning)
    \/ ValidatePosition
    \/ ValidatePortfolio
    \/ ValidateChartParameters

SpecValidation == InitValidation /\ [][NextValidation]_vars

-----------------------------------------------------------------------------
(* The sampling loops, one iteration at a time *)

\* In this machine op is the point of control (the function and, while it
\* runs, the place in it), underlying_price is the local current_price, and
\* result holds the other locals: the vector being filled, prev_pnl, and the
\* number of iterations made so far.

\* Significant bits of a price: integers up to 2^MantissaBits are exact,
\* beyond it they are 2 apart, then 4 apart, as f64 values are beyond 2^53.
MantissaBits == 3

\* Iterations beyond which a loop is no longer followed.
MaxIterations == 2^MantissaBits + 4

LoopSteps == (-1)..MaxStep

\* The price grid, and two prices where neighbouring values are 2 apart.
LoopPrices == Prices \cup {2^MantissaBits, 2^MantissaBits + 2}

\* The distance between x and the next value of larger magnitude.
RECURSIVE ulp(_)
ulp(x) == IF Abs(x) < 2^MantissaBits THEN 1 ELSE 2 * ulp(Abs(x) \div 2)

\* The value nearest to x, a tie going to the even multiple of ulp(x).
round_to_nearest(x) ==
    LET u == ulp(x)
        lo == (x \div u) * u
        r == x - lo
    IN  IF 2 * r < u THEN lo
        ELSE IF 2 * r > u THEN lo + u
        ELSE IF (lo \div u) % 2 = 0 THEN lo ELSE lo + u

LoopPortfolios ==
    { <<>>, <<SpotPosition_new(1, 2)>>,
      <<OptionPosition_new("Call", 1, 2, 1), OptionPosition_new("Put", 1, 2, 1)>>,
      <<toggle_active(SpotPosition_new(1, 2))>> }

Locals(iterations, output, prev_pnl) ==
    [iterations |-> iterations, output |-> output, prev_pnl |-> prev_pnl]

\* current_price += step_size, the sum rounded as an f64 sum is
advance(current_price, step) == round_to_nearest(current_price + step)

InitLoop ==
    /\ positions \in LoopPortfolios
    /\ price_start \in LoopPrices
    /\ price_end \in LoopPrices
    /\ step_size \in LoopSteps
    /\ underlying_price = price_start
    /\ op \in {"generate_payoff_curve.while", "find_breakeven_points.enter"}
    /\ result = Locals(0, <<>>, 0)

GenerateCurveIterate ==
    /\ op = "generate_payoff_curve.while"
    /\ underlying_price <= price_end
    /\ result.iterations < MaxIterations
    /\ LET payoff == calculate_portfolio_payoff(positions, underlying_price)
       IN  result' = [result EXCEPT
                        !.iterations = @ + 1,
                        !.output = Append(@, PayoffPoint(underlying_price, payoff))]
    /\ underlying_price' = advance(underlying_price, step_size)
    /\ UNCHANGED <<positions, price_start, price_end, step_size, op>>

GenerateCurveReturn ==
    /\ op = "generate_payoff_curve.while"
    /\ ~(underlying_price <= price_end)
    /\ op' = "generate_payoff_curve"
    /\ UNCHANGED <<positions, price_start, price_end, step_size,
                   underlying_price, result>>

FindBreakevenEnter ==
    /\ op = "find_breakeven_points.enter"
    /\ IF \A i \in 1..Len(positions) : ~is_active(positions[i])
       THEN /\ op' = "find_breakeven_points"
            /\ UNCHANGED <<underlying_price, result>>
       ELSE /\ op' = "find_breakeven_points.while"
            /\ result' = [result EXCEPT !.prev_pnl =
                            calculate_portfolio_payoff(positions, price_start)]
            /\ underlying_price' = advance(price_start, step_size)
    /\ UNCHANGED <<positions, price_start, price_end, step_size>>

FindBreakevenIterate ==
    /\ op = "find_breakeven_points.while"
    /\ underlying_price <= price_end
    /\ result.iterations < MaxIterations
    /\ LET prev_pnl == result.prev_pnl
           current_pnl == calculate_portfolio_payoff(positions, underlying_price)
           crossed == \/ (prev_pnl <= 0 /\ current_pnl >= 0)
                      \/ (prev_pnl >= 0 /\ current_pnl <= 0)
           breakeven == interpolate_zero_crossing(underlying_price - step_size,
                            prev_pnl, underlying_price, current_pnl)
       IN  result' = [result EXCEPT
                        !.iterations = @ + 1,
                        !.output = IF crossed THEN Append(@, breakeven) ELSE @,
                        !.prev_pnl = current_pnl]
    /\ underlying_price' = advance(underlying_price, step_size)
    /\ UNCHANGED <<positions, price_start, price_end, step_size, op>>

FindBreakevenReturn ==
    /\ op = "find_breakeven_points.while"
    /\ ~(underlying_price <= price_end)
    /\ op' = "find_breakeven_points"
    /\ UNCHANGED <<positions, price_start, price_end, step_size,
                   underlying_price, result>>

NextLoop ==
    \/ GenerateCurveIterate
    \/ GenerateCurveReturn
    \/ FindBreakevenEnter
    \/ FindBreakevenIterate
    \/ FindBreakevenReturn

\* A call that is running takes its next step.
SpecLoop == InitLoop /\ [][NextLoop]_vars /\ WF_vars(NextLoop)

-----------------------------------------------------------------------------
(* Claims *)

\* What position i contributes to the portfolio at a price.
Contribution(ps, i, price) ==
    IF ps[i].active THEN calculate_single_payoff(ps[i], price) ELSE 0

RECURSIVE SumOfContributions(_, _, _)
SumOfContributions(ps, n, price) ==
    IF n = 0 THEN 0
    ELSE SumOfContributions(ps, n - 1, price) + Contribution(ps, n, price)

\* C1: the portfolio payoff returned at a price is the sum of the single
\* payoffs of the positions whose active flag is true; an inactive position
\* contributes 0.
C1_PortfolioPayoffSumsActive ==
    op = "calculate_portfolio_payoff" =>
        result = SumOfContributions(positions, Len(positions), underlying_price)

\* A payoff was computed for a list holding an active and an inactive
\* position, both with a non-zero single payoff at the price.
C1_Witness ==
    /\ op = "calculate_portfolio_payoff"
    /\ \E i, j \in 1..Len(positions) :
        /\ positions[i].active /\ ~positions[j].active
        /\ calculate_single_payoff(positions[i], underlying_price) # 0
        /\ calculate_single_payoff(positions[j], underlying_price) # 0

\* C2: toggling an active position changes the portfolio payoff at every
\* price by exactly minus that position's single payoff, and toggling the same
\* position a second time restores the original list and portfolio payoff.
C2_ToggleRemovesContribution ==
    [][\A i \in 1..Len(positions) :
        (ToggleActive(i) /\ positions[i].active) =>
            LET twice == [positions' EXCEPT ![i] = toggle_active(@)]
            IN  /\ twice = positions
                /\ \A price \in Prices :
                    /\ calculate_portfolio_payoff(positions', price)
                         = calculate_portfolio_payoff(positions, price)
                            - calculate_single_payoff(positions[i], price)
                    /\ calculate_portfolio_payoff(twice, price)
                         = calculate_portfolio_payoff(positions, price)]_vars

\* A position with a non-zero payoff was just toggled off beside an active one.
C2_Witness ==
    /\ op = "toggle_active"
    /\ \E i, j \in 1..Len(positions) :
        /\ ~positions[i].active /\ positions[j].active
        /\ \E price \in Prices :
            /\ calculate_single_payoff(positions[i], price) # 0
            /\ calculate_single_payoff(positions[j], price) # 0

ActivePositions == SelectSeq(positions, is_active)

\* C3 (as stated): with zero active positions analyze_portfolio returns
\* max_profit = None, max_loss = None, breakeven_points = [] and
\* profit_probability = None, for all sampling parameters with step_size > 0.
C3_NoActiveAllNone ==
    (op = "analyze_portfolio" /\ ActivePositions = <<>>) =>
        /\ result.max_profit = None
        /\ result.max_loss = None
        /\ result.breakeven_points = <<>>
        /\ result.profit_probability = None

\* C4 (as stated): with at least one active position analyze_portfolio returns
\* Some for max_profit, max_loss, profit_probability and expected_value, for
\* all price_start, price_end and step_size > 0.
C4_ActiveAllSome ==
    (op = "analyze_portfolio" /\ ActivePositions # <<>>) =>
        /\ Len(result.max_profit) = 1
        /\ Len(result.max_loss) = 1
        /\ Len(result.profit_probability) = 1
        /\ Len(result.expected_value) = 1

\* C4 (amended): with at least one active position and price_start <= price_end
\* analyze_portfolio returns Some for max_profit, max_loss, profit_probability
\* and expected_value; with price_start > price_end all four are None.
C4_ActiveAllSomeOnRange ==
    (op = "analyze_portfolio" /\ ActivePositions # <<>>) =>
        IF price_start <= price_end
        THEN /\ Len(result.max_profit) = 1
             /\ Len(result.max_loss) = 1
             /\ Len(result.profit_probability) = 1
             /\ Len(result.expected_value) = 1
        ELSE /\ result.max_profit = None
             /\ result.max_loss = None
             /\ result.profit_probability = None
             /\ result.expected_value = None

\* A list with an active and an inactive position was analysed over a range
\* of a single sample.
C4_Witness ==
    /\ op = "analyze_portfolio"
    /\ ActivePositions # <<>>
    /\ Len(ActivePositions) < Len(positions)
    /\ price_start = price_end
    /\ Len(result.max_profit) = 1

\* C5: for price_start <= price_end the curve's prices are strictly
\* increasing, the first is price_start, and the last price p satisfies
\* price_end - step_size < p <= price_end.
C5_CurvePricesIncrease ==
    (op = "generate_payoff_curve" /\ price_start <= price_end) =>
        /\ Len(result) >= 1
        /\ result[1].price = price_start
        /\ \A i \in 1..(Len(result) - 1) : result[i].price < result[i + 1].price
        /\ LET p == result[Len(result)].price
           IN  price_end - step_size < p /\ p <= price_end

\* A curve of at least three points whose last sample falls short of price_end.
C5_Witness ==
    /\ op = "generate_payoff_curve"
    /\ Len(result) >= 3
    /\ result[Len(result)].price < price_end

\* The points (price_start + i*step_size, portfolio payoff there) for
\* i = 0 .. floor((price_end - price_start) / step_size).
IndexedCurve(ps, start, end, step) ==
    LET n == ((end - start) \div step) + 1
    IN  [i \in 1..n |->
            PayoffPoint(start + (i - 1) * step,
                        calculate_portfolio_payoff(ps, start + (i - 1) * step))]

\* C6: the curve is empty when price_start > price_end; otherwise it is exactly
\* the index-generated points in order.  Scenario A: a spot of 100 units
\* entered at 50, sampled over [40, 60] by 5.
C6_CurveIsIndexedSamples ==
    /\ op = "generate_payoff_curve" =>
        IF price_start > price_end
        THEN result = <<>>
        ELSE result = IndexedCurve(positions, price_start, price_end, step_size)
    /\ generate_payoff_curve(<<SpotPosition_new(100, 50)>>, 40, 60, 5)
        = << PayoffPoint(40, -1000), PayoffPoint(45, -500), PayoffPoint(50, 0),
             PayoffPoint(55, 500), PayoffPoint(60, 1000) >>

\* A curve of at least three points with a non-zero payoff, ending on price_end.
C6_Witness ==
    /\ op = "generate_payoff_curve"
    /\ Len(result) >= 3
    /\ result[Len(result)].price = price_end
    /\ \E i \in 1..Len(result) : result[i].payoff # 0

\* C7: a Spot pays quantity * (price - entry_price), a Futures pays
\* quantity * contract_size * (price - entry_price), for every signed quantity
\* and price; each pays 0 at its own entry price.
C7_SpotAndFuturesLinear ==
    op = "calculate_single_payoff" =>
        LET p == positions[1]
        IN  /\ p.variant = "Spot" =>
                /\ result = p.quantity * (underlying_price - p.entry_price)
                /\ calculate_single_payoff(p, p.entry_price) = 0
            /\ p.variant = "Futures" =>
                /\ result = p.quantity * p.contract_size
                                * (underlying_price - p.entry_price)
                /\ calculate_single_payoff(p, p.entry_price) = 0

\* A short futures with a contract size above 1 was priced away from its entry.
C7_Witness ==
    /\ op = "calculate_single_payoff"
    /\ positions[1].variant = "Futures"
    /\ positions[1].quantity < 0
    /\ positions[1].contract_size > 1
    /\ underlying_price # positions[1].entry_price
    /\ result # 0

\* C8: a long Call pays -quantity*premium at every price <= strike and
\* quantity*((price - strike) - premium) above it; a long Put pays
\* -quantity*premium at every price >= strike.  Scenario B: a long call of 1
\* at strike 50, premium 5.
C8_LongOptionPayoff ==
    /\ op = "calculate_single_payoff" =>
        LET p == positions[1]
        IN  (p.variant = "Option" /\ p.quantity > 0) =>
                /\ (p.option_type = "Call" /\ underlying_price <= p.strike_price)
                    => result = -(p.quantity * p.premium)
                /\ (p.option_type = "Call" /\ underlying_price > p.strike_price)
                    => result = p.quantity
                                * ((underlying_price - p.strike_price) - p.premium)
                /\ (p.option_type = "Put" /\ underlying_price >= p.strike_price)
                    => result = -(p.quantity * p.premium)
    /\ calculate_single_payoff(OptionPosition_new("Call", 1, 50, 5), 45) = -5
    /\ calculate_single_payoff(OptionPosition_new("Call", 1, 50, 5), 50) = -5
    /\ calculate_single_payoff(OptionPosition_new("Call", 1, 50, 5), 60) = 5

\* A long call of two contracts with a premium was priced below its strike.
C8_Witness ==
    /\ op = "calculate_single_payoff"
    /\ positions[1].variant = "Option"
    /\ positions[1].option_type = "Call"
    /\ positions[1].quantity = 2
    /\ positions[1].premium > 0
    /\ underlying_price < positions[1].strike_price
    /\ result = -(2 * positions[1].premium)

Intrinsic(p, price) ==
    IF p.option_type = "Call"
    THEN (IF price > p.strike_price THEN price - p.strike_price ELSE 0)
    ELSE (IF price < p.strike_price THEN p.strike_price - price ELSE 0)

\* C9: an option with quantity -n (n > 0) pays n*(premium - intrinsic) at
\* every price, the negation of the payoff of the same option held long with
\* quantity n.
C9_ShortOptionNegatesLong ==
    op = "calculate_single_payoff" =>
        LET p == positions[1]
        IN  (p.variant = "Option" /\ p.quantity < 0) =>
                LET n == -p.quantity
                    long == [p EXCEPT !.quantity = n]
                IN  /\ result = n * (p.premium - Intrinsic(p, underlying_price))
                    /\ result = -calculate_single_payoff(long, underlying_price)

\* A short put of two contracts was priced in the money.
C9_Witness ==
    /\ op = "calculate_single_payoff"
    /\ positions[1].variant = "Option"
    /\ positions[1].option_type = "Put"
    /\ positions[1].quantity = -2
    /\ underlying_price < positions[1].strike_price
    /\ result # 0

\* C10 (as stated): the branch-on-sign option payoff of PayoffCalculator and
\* the signed formula of PayoffEngine return the same payoff for every option
\* position at every price.
C10_CalculatorEqualsEngine ==
    (op = "PayoffCalculator_calculate_single_payoff"
        /\ positions[1].variant = "Option") =>
            result = calculate_single_payoff(positions[1], underlying_price)

\* The curve sampled with the chart's parameters.
Curve == generate_payoff_curve(positions, price_start, price_end, step_size)

\* The pair of samples (a, b) has payoffs y1 <= 0 <= y2 or y1 >= 0 >= y2.
Crosses(a, b) ==
    \/ (a.payoff <= 0 /\ b.payoff >= 0)
    \/ (a.payoff >= 0 /\ b.payoff <= 0)

\* The crossings of the first n sample pairs of a curve, left to right.
RECURSIVE CrossingsOf(_, _)
CrossingsOf(curve, n) ==
    IF n <= 0 THEN <<>>
    ELSE LET before == CrossingsOf(curve, n - 1)
             a == curve[n]
             b == curve[n + 1]
         IN  IF Crosses(a, b)
             THEN Append(before,
                         interpolate_zero_crossing(a.price, a.payoff,
                                                   b.price, b.payoff))
             ELSE before

\* C11 (as stated): with an active position the breakevens are the interpolated
\* crossings of the consecutive sample pairs, one for a pair exactly when
\* y1 <= 0 <= y2 or y1 >= 0 >= y2, in order, and their number never exceeds the
\* number of curve points minus one.
C11_OneCrossingPerPair ==
    (op = "find_breakeven_points" /\ ActivePositions # <<>>) =>
        /\ result = CrossingsOf(Curve, Len(Curve) - 1)
        /\ Len(result) <= Len(Curve) - 1

\* C11 (amended): the same, the bound on the number of breakevens holding
\* whenever the curve is non-empty (price_start <= price_end); on an empty
\* curve no breakeven is returned.
C11_OneCrossingPerPairOnRange ==
    (op = "find_breakeven_points" /\ ActivePositions # <<>>) =>
        /\ result = CrossingsOf(Curve, Len(Curve) - 1)
        /\ IF price_start <= price_end
           THEN Len(result) <= Len(Curve) - 1
           ELSE result = <<>>

\* Breakevens were found on a curve with a pair that does not cross, one of
\* them interpolated strictly between two samples.
C11_Witness ==
    /\ op = "find_breakeven_points"
    /\ ActivePositions # <<>>
    /\ Len(result) >= 1
    /\ Len(result) < Len(Curve) - 1
    /\ \E k \in 1..Len(result) :
        \A i \in 1..Len(Curve) : result[k] # Rat(Curve[i].price, 1)

\* The same positions with prices counted in units of 1/d: every entry price,
\* strike and premium multiplied by d.
InUnitsOf(pos, d) ==
    CASE pos.variant = "Spot" -> [pos EXCEPT !.entry_price = d * @]
      [] pos.variant = "Option" ->
            [pos EXCEPT !.strike_price = d * @, !.premium = d * @,
                        !.expiry_price = d * @]
      [] pos.variant = "Futures" -> [pos EXCEPT !.entry_price = d * @]

\* b.den times the portfolio payoff at the fractional price b.
PayoffAtTimesDen(ps, b) ==
    calculate_portfolio_payoff(
        [i \in 1..Len(ps) |-> InUnitsOf(ps[i], b.den)], b.num)

\* The steepest the portfolio payoff can move per unit of price.
RECURSIVE MaxSlope(_)
MaxSlope(ps) ==
    IF ps = <<>> THEN 0
    ELSE LET pos == Head(ps)
             own == IF ~pos.active THEN 0
                    ELSE IF pos.variant = "Futures"
                         THEN Abs(pos.quantity) * pos.contract_size
                         ELSE Abs(pos.quantity)
         IN  own + MaxSlope(Tail(ps))

OnlyLinearActive(ps) ==
    \A i \in 1..Len(ps) : ps[i].active => ps[i].variant \in {"Spot", "Futures"}

\* C12: every breakeven b returned satisfies |portfolio payoff at b| <=
\* step_size * (sum of |quantity| * contract size over the active positions),
\* a tolerance tied to the curve resolution; when the active positions are
\* Spot and Futures only, b is an exact zero of the portfolio payoff.
C12_BreakevenWithinTolerance ==
    op = "find_breakeven_points" =>
        \A k \in 1..Len(result) :
            LET b == result[k]
                y == PayoffAtTimesDen(positions, b)
            IN  /\ Abs(y) <= b.den * step_size * MaxSlope(positions)
                /\ OnlyLinearActive(positions) => y = 0

\* A breakeven was interpolated across a kink and is not an exact zero of the
\* portfolio payoff.
C12_Witness ==
    /\ op = "find_breakeven_points"
    /\ \E k \in 1..Len(result) : PayoffAtTimesDen(positions, result[k]) # 0

\* C13 (as stated): calculate_max_profit and calculate_max_loss return None
\* when no position is active; otherwise they return Some(m), m the maximum
\* (minimum) payoff among the points of the curve.
C13_MaxIsCurveExtreme ==
    /\ op = "calculate_max_profit" =>
        IF ActivePositions = <<>> THEN result = None
        ELSE /\ Len(result) = 1
             /\ \E i \in 1..Len(Curve) : Curve[i].payoff = result[1]
             /\ \A i \in 1..Len(Curve) : Curve[i].payoff <= result[1]
    /\ op = "calculate_max_loss" =>
        IF ActivePositions = <<>> THEN result = None
        ELSE /\ Len(result) = 1
             /\ \E i \in 1..Len(Curve) : Curve[i].payoff = result[1]
             /\ \A i \in 1..Len(Curve) : Curve[i].payoff >= result[1]

\* C13 (amended): None when no position is active or the curve is empty
\* (price_start > price_end); otherwise Some(m), m the maximum (minimum) payoff
\* among the points of the curve, attained at a sample in
\* [price_start, price_end].
C13_MaxIsCurveExtremeOnRange ==
    /\ op = "calculate_max_profit" =>
        IF ActivePositions = <<>> \/ price_start > price_end THEN result = None
        ELSE /\ Len(result) = 1
             /\ \E i \in 1..Len(Curve) :
                    /\ Curve[i].payoff = result[1]
                    /\ price_start <= Curve[i].price
                    /\ Curve[i].price <= price_end
             /\ \A i \in 1..Len(Curve) : Curve[i].payoff <= result[1]
    /\ op = "calculate_max_loss" =>
        IF ActivePositions = <<>> \/ price_start > price_end THEN result = None
        ELSE /\ Len(result) = 1
             /\ \E i \in 1..Len(Curve) :
                    /\ Curve[i].payoff = result[1]
                    /\ price_start <= Curve[i].price
                    /\ Curve[i].price <= price_end
             /\ \A i \in 1..Len(Curve) : Curve[i].payoff >= result[1]

\* The minimum of a curve that is not monotone was taken: it lies below both
\* the first and the last sample.
C13_Witness ==
    /\ op = "calculate_max_loss"
    /\ Len(result) = 1
    /\ Len(Curve) >= 3
    /\ result[1] < Curve[1].payoff
    /\ result[1] < Curve[Len(Curve)].payoff

\* The sum of the payoffs of the first n points of a curve.
RECURSIVE SumPayoffs(_, _)
SumPayoffs(curve, n) ==
    IF n = 0 THEN 0 ELSE SumPayoffs(curve, n - 1) + curve[n].payoff

ProfitablePoints(curve) == {i \in 1..Len(curve) : curve[i].payoff > 0}

\* C14: analyze_portfolio sets profit_probability to (number of curve points
\* with payoff > 0) / (number of curve points) and expected_value to the mean
\* of the curve payoffs; a payoff of exactly 0 is not counted as profitable.
\* On a curve of no points the two quotients have no value and both fields
\* are None.
C14_ProbabilityAndMean ==
    op = "analyze_portfolio" =>
        IF Curve = <<>>
        THEN result.profit_probability = None /\ result.expected_value = None
        ELSE /\ Len(result.profit_probability) = 1
             /\ Len(result.expected_value) = 1
             /\ LET p == result.profit_probability[1]
                    e == result.expected_value[1]
                IN  /\ p.den > 0 /\ e.den > 0
                    /\ p.num * Len(Curve)
                        = Cardinality(ProfitablePoints(Curve)) * p.den
                    /\ e.num * Len(Curve)
                        = SumPayoffs(Curve, Len(Curve)) * e.den

\* A curve with a losing sample, a sample of payoff exactly 0 and a winning
\* sample was analysed, and its mean is not 0.
C14_Witness ==
    /\ op = "analyze_portfolio"
    /\ \E i, j, k \in 1..Len(Curve) :
        Curve[i].payoff < 0 /\ Curve[j].payoff = 0 /\ Curve[k].payoff > 0
    /\ result.expected_value[1].num # 0

\* C15 (as stated): the total_positions returned by analyze_portfolio equals
\* the number of positions whose active flag is true.
C15_TotalCountsActive ==
    op = "analyze_portfolio" =>
        result.total_positions = Len(ActivePositions)

\* C16: generate_payoff_curve, find_breakeven_points, calculate_max_profit and
\* calculate_max_loss each return for the list what they return for the list
\* with its inactive positions removed.
C16_AggregatesIgnoreInactive ==
    /\ op = "generate_payoff_curve" =>
        result = generate_payoff_curve(ActivePositions, price_start,
                                       price_end, step_size)
    /\ op = "find_breakeven_points" =>
        result = find_breakeven_points(ActivePositions, price_start,
                                       price_end, step_size)
    /\ op = "calculate_max_profit" =>
        result = calculate_max_profit(ActivePositions, price_start,
                                      price_end, step_size)
    /\ op = "calculate_max_loss" =>
        result = calculate_max_loss(ActivePositions, price_start,
                                    price_end, step_size)

\* Breakevens were found for a list with an active position and an inactive
\* one whose own payoff is not 0 on the range.
C16_Witness ==
    /\ op = "find_breakeven_points"
    /\ result # <<>>
    /\ ActivePositions # <<>>
    /\ \E i \in 1..Len(positions) :
        /\ ~positions[i].active
        /\ \E price \in price_start..price_end :
            calculate_single_payoff(positions[i], price) # 0

\* The directions the classifier tells apart.
IsLong(pos) == pos.quantity > 0

IsShort(pos) == pos.quantity < 0

IsCall(pos) == pos.variant = "Option" /\ pos.option_type = "Call"

IsPut(pos) == pos.variant = "Option" /\ pos.option_type = "Put"

\* Long spot, long call or long futures.
UnlimitedUpside(pos) ==
    IsLong(pos) /\ (pos.variant \in {"Spot", "Futures"} \/ IsCall(pos))

\* Long spot, short call, long put, or futures of either direction.
UnlimitedDownside(pos) ==
    \/ (pos.variant = "Spot" /\ IsLong(pos))
    \/ (IsCall(pos) /\ IsShort(pos))
    \/ (IsPut(pos) /\ IsLong(pos))
    \/ pos.variant = "Futures"

\* C17: has_unlimited_profit is true exactly when the list holds a Spot with
\* quantity > 0, a Call with quantity > 0 or a Futures with quantity > 0; it is
\* false for a list of short spot, short futures, puts and short calls only,
\* and for the empty list.
C17_UnlimitedProfitIffLong ==
    op = "has_unlimited_profit" =>
        /\ result <=> (\E i \in 1..Len(positions) : UnlimitedUpside(positions[i]))
        /\ (\A i \in 1..Len(positions) :
                \/ (positions[i].variant \in {"Spot", "Futures"}
                        /\ IsShort(positions[i]))
                \/ IsPut(positions[i])
                \/ (IsCall(positions[i]) /\ IsShort(positions[i])))
            => result = FALSE
        /\ positions = <<>> => result = FALSE

\* A list of a put and a long call was classified as having unlimited profit.
C17_Witness ==
    /\ op = "has_unlimited_profit"
    /\ result = TRUE
    /\ \E i, j \in 1..Len(positions) :
        /\ IsPut(positions[i])
        /\ IsCall(positions[j]) /\ IsLong(positions[j])

\* C18: has_unlimited_loss is true exactly when the list holds a Spot with
\* quantity > 0, a Call with quantity < 0, a Put with quantity > 0 or any
\* Futures; a list of short spot, long calls and short puts only yields false.
C18_UnlimitedLossIffExposed ==
    op = "has_unlimited_loss" =>
        /\ result <=> (\E i \in 1..Len(positions) : UnlimitedDownside(positions[i]))
        /\ (\A i \in 1..Len(positions) :
                \/ (positions[i].variant = "Spot" /\ IsShort(positions[i]))
                \/ (IsCall(positions[i]) /\ IsLong(positions[i]))
                \/ (IsPut(positions[i]) /\ IsShort(positions[i])))
            => result = FALSE

\* A list of short futures only was classified as having unlimited loss.
C18_Witness ==
    /\ op = "has_unlimited_loss"
    /\ result = TRUE
    /\ positions # <<>>
    /\ \A i \in 1..Len(positions) :
        positions[i].variant = "Futures" /\ IsShort(positions[i])

\* C19: get_risk_level maps (unlimited profit, unlimited loss) as
\* (true,true) -> High, (true,false) -> Medium, (false,true) -> High,
\* (false,false) -> Low; it is High exactly when has_unlimited_loss holds, High
\* for every list with a long spot or any futures, and Low for the empty list.
C19_RiskLevelTable ==
    op = "get_risk_level" =>
        LET profit == \E i \in 1..Len(positions) : UnlimitedUpside(positions[i])
            loss == \E i \in 1..Len(positions) : UnlimitedDownside(positions[i])
        IN  /\ (profit /\ loss) => result = "High"
            /\ (profit /\ ~loss) => result = "Medium"
            /\ (~profit /\ loss) => result = "High"
            /\ (~profit /\ ~loss) => result = "Low"
            /\ (result = "High") <=> has_unlimited_loss(positions)
            /\ (\E i \in 1..Len(positions) :
                    \/ (positions[i].variant = "Spot" /\ IsLong(positions[i]))
                    \/ positions[i].variant = "Futures")
                => result = "High"
            /\ positions = <<>> => result = "Low"

\* A list with unlimited loss and no unlimited profit was classified.
C19_Witness ==
    /\ op = "get_risk_level"
    /\ result = "High"
    /\ positions # <<>>
    /\ ~has_unlimited_profit(positions)

\* C20: a toggle_active or set_active on any position leaves
\* has_unlimited_profit, has_unlimited_loss and get_risk_level as they were,
\* so they are unchanged after any sequence of such operations.
C20_RiskIgnoresActiveFlag ==
    [][((\E i \in 1..Len(positions) : ToggleActive(i))
            \/ (\E i \in 1..Len(positions), a \in BOOLEAN : SetActive(i, a)))
        => /\ has_unlimited_profit(positions') = has_unlimited_profit(positions)
           /\ has_unlimited_loss(positions') = has_unlimited_loss(positions)
           /\ get_risk_level(positions') = get_risk_level(positions)]_vars

\* The last position was switched off: every position is inactive, every
\* payoff on the price grid is 0, and the list is still High.
C20_Witness ==
    /\ op \in {"toggle_active", "set_active"}
    /\ positions # <<>>
    /\ \A i \in 1..Len(positions) : ~positions[i].active
    /\ \A price \in Prices : calculate_portfolio_payoff(positions, price) = 0
    /\ get_risk_level(positions) = "High"

\* The position handed to validate_position.
Validated == positions[1]

\* The hard errors, one predicate per rule.
ZeroQuantity(pos) == pos.quantity = 0

BadSpotEntry(pos) == pos.variant = "Spot" /\ pos.entry_price <= 0

BadFuturesEntry(pos) == pos.variant = "Futures" /\ pos.entry_price <= 0

BadStrike(pos) == pos.variant = "Option" /\ pos.strike_price <= 0

BadPremium(pos) == pos.variant = "Option" /\ pos.premium < 0

BadContractSize(pos) == pos.variant = "Futures" /\ pos.contract_size <= 0

\* C21 (as stated): validate_position returns is_valid = false with at least
\* one error exactly when the position has quantity = 0, entry_price <= 0
\* (Spot or Futures), strike_price <= 0, premium < 0 or contract_size <= 0.
C21_InvalidIffHardError ==
    op = "validate_position" =>
        ((~result.is_valid /\ Len(result.errors) >= 1)
            <=> \/ ZeroQuantity(Validated)
                \/ BadSpotEntry(Validated)
                \/ BadFuturesEntry(Validated)
                \/ BadStrike(Validated)
                \/ BadPremium(Validated)
                \/ BadContractSize(Validated))

\* The rules a position violates among those validate_position has for its
\* variant (the invariant column of the data model), by their messages.
ViolatedRules(pos) ==
    {m \in {"Quantity cannot be zero", "Entry price must be positive",
            "Strike price must be positive", "Premium cannot be negative",
            "Contract size must be positive"} :
        \/ (m = "Quantity cannot be zero" /\ ZeroQuantity(pos))
        \/ (m = "Entry price must be positive" /\ BadSpotEntry(pos))
        \/ (m = "Strike price must be positive" /\ BadStrike(pos))
        \/ (m = "Premium cannot be negative" /\ BadPremium(pos))
        \/ (m = "Contract size must be positive" /\ BadContractSize(pos))}

C23_OnlyErrorsInvalidate ==
    /\ [](result.is_valid <=> result.errors = <<>>)
    /\ [][op' = "add_warning" =>
            /\ result'.is_valid = result.is_valid
            /\ result'.errors = result.errors
            /\ Len(result'.warnings) = Len(result.warnings) + 1]_vars
    /\ [][op' = "add_error" =>
            /\ ~result'.is_valid
            /\ Len(result'.errors) = Len(result.errors) + 1]_vars
    /\ [][(~result.is_valid /\ op' \in {"add_error", "add_warning"})
            => ~result'.is_valid]_vars

\* A warning was added to a result that has warnings only and is valid.
C23_Witness ==
    /\ op = "add_warning"
    /\ Len(result.warnings) = MaxMessages
    /\ result.errors = <<>>
    /\ result.is_valid

\* The errors of positions 1..n of a list, each with its index in front.
RECURSIVE PrefixedErrors(_, _)
PrefixedErrors(ps, n) ==
    IF n = 0 THEN <<>>
    ELSE LET errors == validate_position(ps[n]).errors
         IN  PrefixedErrors(ps, n - 1)
                \o [k \in 1..Len(errors) |-> Prefixed(n, errors[k])]

\* C24: validate_portfolio on a non-empty list is valid exactly when
\* validate_position is valid for every element; its errors are the
\* per-position errors in list order, each prefixed with the 1-based index of
\* its position, and their number is the sum of the per-position counts.
C24_PortfolioErrorsArePositionErrors ==
    (op = "validate_portfolio" /\ positions # <<>>) =>
        /\ result.is_valid
            <=> \A i \in 1..Len(positions) : validate_position(positions[i]).is_valid
        /\ result.errors = PrefixedErrors(positions, Len(positions))
        /\ Len(result.errors)
            = SeqSum([i \in 1..Len(positions) |->
                        Len(validate_position(positions[i]).errors)])

\* A portfolio of the spot with two errors and the option with three was
\* validated.
C24_Witness ==
    /\ op = "validate_portfolio"
    /\ Len(positions) = 2
    /\ Len(validate_position(positions[1]).errors) = 2
    /\ Len(validate_position(positions[2]).errors) = 3
    /\ Len(result.errors) = 5

\* C25: validate_chart_parameters is valid exactly when price_start > 0,
\* price_end > 0, price_start < price_end, step_size > 0 and step_size <=
\* price_end - price_start; price_start >= price_end (as in start 100, end 50,
\* step 1) is invalid with at least one error; more than ManySteps samples
\* add a warning and leave the result valid.
C25_ChartParametersValidIff ==
    op = "validate_chart_parameters" =>
        /\ result.is_valid
            <=> /\ price_start > 0 /\ price_end > 0 /\ price_start < price_end
                /\ step_size > 0 /\ step_size <= price_end - price_start
        /\ price_start >= price_end
            => (~result.is_valid /\ Len(result.errors) >= 1)
        /\ (price_start = 100 /\ price_end = 50 /\ step_size = 1)
            => (~result.is_valid /\ Len(result.errors) >= 1)
        /\ (/\ price_start > 0 /\ price_start < price_end
            /\ step_size > 0 /\ step_size <= price_end - price_start
            /\ (price_end - price_start) \div step_size > ManySteps)
            => (result.is_valid /\ Len(result.warnings) = 1)

\* A range of more than ManySteps samples was validated: valid, one warning.
C25_Witness ==
    /\ op = "validate_chart_parameters"
    /\ result.is_valid
    /\ Len(result.warnings) = 1

\* floor((price_end - price_start) / step_size) + 1, or 0 on an empty range.
IterationBound ==
    Max(0, (price_end - price_start) \div step_size + 1)

\* C26 (as stated): for every step_size > 0 the loops of generate_payoff_curve
\* and find_breakeven_points terminate, after at most
\* floor((price_end - price_start) / step_size) + 1 iterations; with
\* step_size <= 0 and price_start <= price_end the loop of
\* generate_payoff_curve never leaves its condition.
C26_SamplingLoopsTerminate ==
    /\ [](step_size > 0 => result.iterations <= IterationBound)
    /\ (step_size > 0)
        ~> (op \in {"generate_payoff_curve", "find_breakeven_points"})
    /\ []((/\ step_size <= 0
           /\ price_start <= price_end
           /\ op \in {"generate_payoff_curve.while", "generate_payoff_curve"})
          => (op = "generate_payoff_curve.while"
              /\ underlying_price <= price_end))

\* Order of two exact quotients.
RatLess(a, b) == a.num * b.den < b.num * a.den

\* How many entries of a list of breakevens equal a price.
TimesReported(breakevens, price) ==
    Cardinality({i \in 1..Len(breakevens) : breakevens[i] = Rat(price, 1)})

C28_CurveStatisticsNoneIffEmptyCurve ==
    op = "analyze_portfolio" =>
        /\ (Curve = <<>>) <=> (price_start > price_end)
        /\ (result.profit_probability = None) <=> (Curve = <<>>)
        /\ (result.expected_value = None) <=> (Curve = <<>>)
        /\ Curve # <<>> =>
            /\ Len(result.profit_probability) = 1
            /\ LET p == result.profit_probability[1]
               IN  p.den > 0 /\ 0 <= p.num /\ p.num <= p.den
            /\ ActivePositions = <<>> =>
                /\ result.profit_probability = Some(Rat(0, 1))
                /\ result.expected_value = Some(Rat(0, 1))

\* A list whose positions are all inactive was analysed over a non-empty
\* range: both statistics are Some(0) while the bounds are None.
C28_Witness ==
    /\ op = "analyze_portfolio"
    /\ positions # <<>>
    /\ ActivePositions = <<>>
    /\ Curve # <<>>
    /\ result.profit_probability = Some(Rat(0, 1))
    /\ result.expected_value = Some(Rat(0, 1))
    /\ result.max_profit = None

\* C29: whenever analyze_portfolio returns Some for max_profit, max_loss and
\* expected_value, max_loss <= expected_value <= max_profit, a
\* profit_probability > 0 implies max_profit > 0 and a profit_probability < 1
\* implies max_loss <= 0.
C29_StatisticsAreOrdered ==
    (/\ op = "analyze_portfolio"
     /\ result.max_profit # None
     /\ result.max_loss # None
     /\ result.expected_value # None) =>
        LET max_profit == result.max_profit[1]
            max_loss == result.max_loss[1]
            e == result.expected_value[1]
            p == result.profit_probability[1]
        IN  /\ max_loss * e.den <= e.num
            /\ e.num <= max_profit * e.den
            /\ p.num > 0 => max_profit > 0
            /\ p.num < p.den => max_loss <= 0

\* A curve with losing and winning samples was analysed: the mean lies
\* strictly between the bounds and the probability strictly between 0 and 1.
C29_Witness ==
    /\ op = "analyze_portfolio"
    /\ result.max_profit # None
    /\ result.max_loss # None
    /\ result.expected_value # None
    /\ LET e == result.expected_value[1]
           p == result.profit_probability[1]
       IN  /\ result.max_loss[1] * e.den < e.num
           /\ e.num < result.max_profit[1] * e.den
           /\ 0 < p.num /\ p.num < p.den

\* Low < Medium < High
RiskRank(level) ==
    CASE level = "Low" -> 0
      [] level = "Medium" -> 1
      [] level = "High" -> 2

====
